---- MODULE Spec2Model ----
(***************************************************************************)
(* ReplicateProvider (src/src/ReplicateProvider.ts): the synchronous       *)
(* bootstrap catalog, the background discovery raced against a timer, the  *)
(* substring capability classifier, configure(), getModel(), isAvailable() *)
(* and the supports*Model queries.                                         *)
(*                                                                         *)
(* JavaScript values that reach the provider untyped (ProviderConfig       *)
(* fields, fields of a listing record) are tagged records [t, v]; strings  *)
(* the provider owns (catalog ids, descriptions) are TLA+ strings.         *)
(***************************************************************************)
EXTENDS Integers, Sequences, FiniteSets, TLC

VARIABLES
    config,            \* this.config
    client,            \* this.client
    discoveredModels,  \* this.discoveredModels, a Map: entries in insertion order
    listing,           \* the client.listModels() call of performModelDiscovery
    timer,             \* the setTimeout of discoverModelsInBackground
    background,        \* the promise of discoverModelsInBackground
    raceWinner,        \* which promise settled Promise.race
    response,          \* the listing response delivered to performModelDiscovery
    inflight,          \* create*Model calls suspended at their first await
    remoteLookups,     \* ids passed to client.getModelMetadata
    lastCall,          \* outcome of the call of the host that settled last
    listModelsCalls    \* number of client.listModels() calls made so far

vars == <<config, client, discoveredModels, listing, timer, background,
          raceWinner, response, inflight, remoteLookups, lastCall, listModelsCalls>>

-----------------------------------------------------------------------------
(* Bounds of the model *)

MaxResp == 2        \* records in one listing response
MaxInflight == 1    \* suspended create*Model calls

-----------------------------------------------------------------------------
(* JavaScript values *)

Undef == [t |-> "undefined", v |-> ""]
Str(s) == [t |-> "string", v |-> s]
Num(s) == [t |-> "number", v |-> s]

\* truthiness as used by `!x`, `x || y` and `if (x)`
Truthy(x) ==
    CASE x.t = "string" -> x.v # ""
      [] x.t = "number" -> x.v # "0"
      [] OTHER -> FALSE

\* x || y
OrElse(x, y) == IF Truthy(x) THEN x ELSE y

LowerChar(c) ==
    CASE c = "A" -> "a" [] c = "B" -> "b" [] c = "C" -> "c" [] c = "D" -> "d"
      [] c = "E" -> "e" [] c = "F" -> "f" [] c = "G" -> "g" [] c = "H" -> "h"
      [] c = "I" -> "i" [] c = "J" -> "j" [] c = "K" -> "k" [] c = "L" -> "l"
      [] c = "M" -> "m" [] c = "N" -> "n" [] c = "O" -> "o" [] c = "P" -> "p"
      [] c = "Q" -> "q" [] c = "R" -> "r" [] c = "S" -> "s" [] c = "T" -> "t"
      [] c = "U" -> "u" [] c = "V" -> "v" [] c = "W" -> "w" [] c = "X" -> "x"
      [] c = "Y" -> "y" [] c = "Z" -> "z" [] OTHER -> c

RECURSIVE toLowerCase(_)
toLowerCase(s) ==
    IF s = "" THEN "" ELSE LowerChar(SubSeq(s, 1, 1)) \o toLowerCase(Tail(s))

\* s.includes(sub)
includes(s, sub) ==
    \E i \in 1..(Len(s) - Len(sub) + 1) : SubSeq(s, i, i + Len(sub) - 1) = sub

\* id.split('/').pop()
RECURSIVE splitPop(_)
splitPop(s) == IF includes(s, "/") THEN splitPop(Tail(s)) ELSE s

\* array.includes(x)
arrayIncludes(arr, x) == \E i \in 1..Len(arr) : arr[i] = x

-----------------------------------------------------------------------------
(* MediaCapability *)

TEXT_TO_IMAGE == "text-to-image"
TEXT_TO_VIDEO == "text-to-video"
TEXT_TO_AUDIO == "text-to-audio"
IMAGE_TO_IMAGE == "image-to-image"
IMAGE_TO_VIDEO == "image-to-video"
VIDEO_TO_VIDEO == "video-to-video"

capabilities ==
    <<TEXT_TO_IMAGE, TEXT_TO_VIDEO, TEXT_TO_AUDIO,
      IMAGE_TO_IMAGE, IMAGE_TO_VIDEO, VIDEO_TO_VIDEO>>

-----------------------------------------------------------------------------
(* The Map this.discoveredModels: a sequence of entries, insertion order *)

MapKeys(m) == {m[i].id : i \in 1..Len(m)}
MapHas(m, id) == \E i \in 1..Len(m) : m[i].id = id
MapGet(m, id) == m[CHOOSE i \in 1..Len(m) : m[i].id = id]
MapSet(m, e) ==
    IF MapHas(m, e.id)
    THEN [i \in 1..Len(m) |-> IF m[i].id = e.id THEN e ELSE m[i]]
    ELSE Append(m, e)

-----------------------------------------------------------------------------
(* initializeKnownReplicateModels *)

Param(n, t, d, lo, hi, def) ==
    [name |-> n, type |-> t, description |-> d, min |-> lo, max |-> hi, default |-> def]

BootstrapParameters ==
    << Param("prompt", "string", "Text prompt for generation", "", "", ""),
       Param("width", "number", "", "128", "2048", "1024"),
       Param("height", "number", "", "128", "2048", "1024"),
       Param("num_inference_steps", "number", "", "1", "100", "50"),
       Param("guidance_scale", "number", "", "0", "20", "7.5") >>

Def(i, n, d, c) == [id |-> i, name |-> n, description |-> d, capabilities |-> <<c>>]

knownModels ==
    << Def("black-forest-labs/flux-schnell", "FLUX.1 Schnell",
           "Fast and high-quality text-to-image generation", TEXT_TO_IMAGE),
       Def("black-forest-labs/flux-dev", "FLUX.1 Dev",
           "FLUX.1 development model for text-to-image", TEXT_TO_IMAGE),
       Def("stability-ai/sdxl", "Stable Diffusion XL",
           "Stable Diffusion XL for high-quality images", TEXT_TO_IMAGE),
       Def("bytedance/sdxl-lightning-4step", "SDXL Lightning",
           "Ultra-fast SDXL in 4 steps", TEXT_TO_IMAGE),
       Def("playgroundai/playground-v2.5-1024px-aesthetic", "Playground v2.5",
           "Aesthetic-focused image generation", TEXT_TO_IMAGE),
       Def("lumalabs/dream-machine", "Luma Dream Machine",
           "High-quality text-to-video generation", TEXT_TO_VIDEO),
       Def("minimax/video-01", "MiniMax Video-01",
           "Advanced text-to-video model", TEXT_TO_VIDEO),
       Def("genmo/mochi-1-preview", "Mochi-1 Preview",
           "High-quality video generation model", TEXT_TO_VIDEO),
       Def("meta/musicgen", "MusicGen",
           "Meta's music generation model", TEXT_TO_AUDIO),
       Def("suno-ai/bark", "Bark",
           "Text-to-speech with voice cloning", TEXT_TO_AUDIO),
       Def("afiaka87/tortoise-tts", "Tortoise TTS",
           "High-quality text-to-speech", TEXT_TO_AUDIO),
       Def("nightmareai/real-esrgan", "Real-ESRGAN",
           "Image upscaling and enhancement", IMAGE_TO_IMAGE),
       Def("tencentarc/gfpgan", "GFPGAN",
           "Face restoration and enhancement", IMAGE_TO_IMAGE),
       Def("stability-ai/stable-video-diffusion", "Stable Video Diffusion",
           "Generate videos from images", IMAGE_TO_VIDEO) >>

\* the providerModel built from one modelDef
ProviderModelOf_nocaps(modelDef) ==
    [id |-> modelDef.id,
     name |-> Str(modelDef.name),
     description |-> modelDef.description,
     capabilities |-> <<>>,
     parameters |-> BootstrapParameters]
ProviderModelOf(modelDef) ==
    [id |-> modelDef.id,
     name |-> Str(modelDef.name),
     description |-> modelDef.description,
     capabilities |-> modelDef.capabilities,
     parameters |-> BootstrapParameters]

\* knownModels.forEach(modelDef => this.discoveredModels.set(modelDef.id, ...))
RECURSIVE SetKnownModels_offByOne(_, _)
SetKnownModels_offByOne(m, i) ==
    IF i >= Len(knownModels) THEN m
    ELSE SetKnownModels_offByOne(MapSet(m, ProviderModelOf(knownModels[i])), i + 1)
RECURSIVE SetKnownModels(_, _)
SetKnownModels(m, i) ==
    IF i > Len(knownModels) THEN m
    ELSE SetKnownModels(MapSet(m, ProviderModelOf(knownModels[i])), i + 1)

initializeKnownReplicateModels == SetKnownModels(<<>>, 1)

-----------------------------------------------------------------------------
(* inferCapabilitiesFromModel *)

\* (x || '').toLowerCase() raises a TypeError when x is truthy and not a string
LowerOf(x) == toLowerCase(OrElse(x, Str("")).v)
LowerThrows(x) == OrElse(x, Str("")).t # "string"

inferThrows(modelData) == LowerThrows(modelData.id) \/ LowerThrows(modelData.description)

\* if (cond) capabilities.push(c)
push_exclusive(caps, cond, c) == IF cond /\ Len(caps) = 0 THEN Append(caps, c) ELSE caps
push(caps, cond, c) == IF cond THEN Append(caps, c) ELSE caps

\* if (capabilities.length === 0) capabilities.push(TEXT_TO_IMAGE)
withDefault_none(caps) == caps
withDefault(caps) == IF Len(caps) = 0 THEN <<TEXT_TO_IMAGE>> ELSE caps

inferCapabilitiesFromModel(modelData) ==
    LET modelId == LowerOf(modelData.id)
        description == LowerOf(modelData.description)
        c1 == push(<<>>,
                   \/ includes(modelId, "text-to-image") \/ includes(modelId, "txt2img")
                   \/ includes(modelId, "flux") \/ includes(modelId, "sdxl")
                   \/ includes(modelId, "stable-diffusion")
                   \/ includes(description, "text to image")
                   \/ includes(description, "generate image"),
                   TEXT_TO_IMAGE)
        c2 == push(c1,
                   \/ includes(modelId, "text-to-video") \/ includes(modelId, "video")
                   \/ includes(description, "text to video")
                   \/ includes(description, "video generation"),
                   TEXT_TO_VIDEO)
        c3 == push(c2,
                   \/ includes(modelId, "music") \/ includes(modelId, "audio")
                   \/ includes(modelId, "speech") \/ includes(modelId, "tts")
                   \/ includes(description, "music") \/ includes(description, "audio")
                   \/ includes(description, "speech"),
                   TEXT_TO_AUDIO)
        c4 == push(c3,
                   \/ includes(modelId, "upscale") \/ includes(modelId, "enhance")
                   \/ includes(modelId, "restore")
                   \/ includes(description, "upscale") \/ includes(description, "enhance")
                   \/ includes(description, "restore"),
                   IMAGE_TO_IMAGE)
        c5 == push(c4,
                   \/ includes(modelId, "image-to-video")
                   \/ includes(description, "image to video"),
                   IMAGE_TO_VIDEO)
    IN  withDefault(c5)

-----------------------------------------------------------------------------
(* performModelDiscovery, from the point where client.listModels() resolves *)

\* this.discoveredModels.has(modelData.id): a key that is not a string matches no entry
HasRecord_never(m, modelData) == FALSE
HasRecord(m, modelData) == modelData.id.t = "string" /\ MapHas(m, modelData.id.v)

\* evaluating the object literal of the new entry raises a TypeError
EntryThrows(modelData) ==
    \/ modelData.id.t # "string" /\ ~Truthy(modelData.name)
    \/ inferThrows(modelData)

\* the entry passed to this.discoveredModels.set
EntryOf(modelData) ==
    LET id == modelData.id.v IN
    [id |-> id,
     name |-> OrElse(modelData.name, OrElse(Str(splitPop(id)), modelData.id)),
     description |-> OrElse(modelData.description, Str("Replicate model: " \o id)).v,
     capabilities |-> inferCapabilitiesFromModel(modelData),
     parameters |-> IF modelData.parameters.defined THEN modelData.parameters.value ELSE <<>>]

\* for (const modelData of models) { ... }, stopped by the first exception
RECURSIVE MergeLoop(_, _, _)
MergeLoop(m, models, i) ==
    IF i > Len(models) THEN [map |-> m, threw |-> FALSE]
    ELSE LET modelData == models[i] IN
         IF ~Truthy(modelData.id) THEN MergeLoop(m, models, i + 1)
         ELSE IF HasRecord(m, modelData) THEN MergeLoop(m, models, i + 1)
         ELSE IF EntryThrows(modelData) THEN [map |-> m, threw |-> TRUE]
         ELSE MergeLoop(MapSet(m, EntryOf(modelData)), models, i + 1)

\* const models = response.results || []
ResultsOf(resp) == IF resp.defined THEN resp.results ELSE <<>>

performMerge_fresh(m, resp) == MergeLoop(<<>>, ResultsOf(resp), 1)
performMerge(m, resp) == MergeLoop(m, ResultsOf(resp), 1)

-----------------------------------------------------------------------------
(* Values the environment supplies *)

Cfg(k, t, r) == [defined |-> TRUE, apiKey |-> k, timeout |-> t, retries |-> r]
NoConfig == [defined |-> FALSE, apiKey |-> Undef, timeout |-> Undef, retries |-> Undef]

\* process.env.REPLICATE_API_TOKEN
EnvTokens == {Undef, Str(""), Str("r8_env")}

\* arguments of configure()
ConfigInputs ==
    { Cfg(Undef, Num("5000"), Undef),
      Cfg(Str("r8_cfg"), Undef, Num("5")) }

Rec(i, n, d, p) == [id |-> i, name |-> n, description |-> d, parameters |-> p]
NoParams == [defined |-> FALSE, value |-> <<>>]
SomeParams == [defined |-> TRUE, value |-> <<Param("prompt", "string", "", "", "", "")>>]

\* records a listing response may carry
RecordPool ==
    { Rec(Str("black-forest-labs/flux-schnell"), Str("Flux Fast"), Str("A faster model"), NoParams),
      Rec(Str("acme/widget-123"), Undef, Undef, NoParams),
      Rec(Str("acme/widget-123"), Str("Widget"), Str("Generate VIDEOS with TTS and FLUX"), SomeParams),
      Rec(Undef, Str("Orphan"), Str("audio model"), NoParams),
      Rec(Str("acme/Upscale-Pro"), Undef, Num("7"), NoParams) }

Responses ==
    {[defined |-> FALSE, results |-> <<>>]} \cup
    {[defined |-> TRUE, results |-> r] : r \in UNION {[1..k -> RecordPool] : k \in 0..MaxResp}}

NoResponse == [defined |-> FALSE, results |-> <<>>]

\* ids the host asks for
ModelIds == {"black-forest-labs/flux-schnell", "acme/widget-123", "nonexistent/model"}

\* ids the host passes to createTextToImageModel directly
CreateIds == {"nonexistent/model"}

-----------------------------------------------------------------------------
(* Errors *)

ErrTokenRequired == "Replicate API token is required"
ErrNotConfigured == "Provider not configured - set REPLICATE_API_TOKEN environment variable or call configure()"
ErrNotFound(id) == "Model '" \o id \o "' not found in known models"
ErrCreateNotConfigured == "Provider not configured"
ErrNoApiKey == "Provider not configured with API key"
ErrRemoteMetadata == "client.getModelMetadata rejected"

Idle == [op |-> "none", arg |-> "", outcome |-> "", error |-> "", value |-> <<>>]
Ok(op, arg, value) == [op |-> op, arg |-> arg, outcome |-> "ok", error |-> "", value |-> value]
Err(op, arg, error) == [op |-> op, arg |-> arg, outcome |-> "error", error |-> error, value |-> <<>>]

Settle(result) == lastCall' = result

-----------------------------------------------------------------------------
(* constructor *)

new_ReplicateClient(k, t, r) == Cfg(k, t, r)

Construct(apiKey) ==
    /\ discoveredModels = initializeKnownReplicateModels
    /\ IF Truthy(apiKey)
       THEN /\ client = new_ReplicateClient(apiKey, Num("600000"), Num("2"))
            /\ config = Cfg(apiKey, Undef, Undef)
            \* discoverModelsInBackground() runs up to its await
            /\ timer = "armed"
            /\ listing = "pending"
            /\ listModelsCalls = 1
            /\ background = "pending"
       ELSE /\ client = NoConfig
            /\ config = NoConfig
            /\ timer = "unset"
            /\ listing = "notCalled"
            /\ listModelsCalls = 0
            /\ background = "notStarted"
    /\ raceWinner = "none"
    /\ response = NoResponse
    /\ inflight = {}
    /\ remoteLookups = {}
    /\ lastCall = Idle

Init == \E apiKey \in EnvTokens : Construct(apiKey)

\* get models()
models == discoveredModels

-----------------------------------------------------------------------------
(* configure *)

\* (a configure that starts the discovery again once it holds a client)
configure_rediscovers(cfg) ==
    /\ config' = cfg
    /\ IF ~Truthy(cfg.apiKey)
       THEN /\ Settle(Err("configure", cfg.apiKey.v, ErrTokenRequired))
            /\ UNCHANGED <<client, listing, timer, background, raceWinner, listModelsCalls>>
       ELSE /\ client' = new_ReplicateClient(cfg.apiKey,
                             OrElse(cfg.timeout, Num("600000")),
                             OrElse(cfg.retries, Num("2")))
            /\ Settle(Ok("configure", cfg.apiKey.v, <<>>))
            /\ listing' = "pending"
            /\ timer' = "armed"
            /\ background' = "pending"
            /\ raceWinner' = "none"
            /\ listModelsCalls' = listModelsCalls + 1
    /\ UNCHANGED <<discoveredModels, response, inflight, remoteLookups>>

configure(cfg) ==
    /\ config' = cfg
    /\ IF ~Truthy(cfg.apiKey)
       THEN /\ Settle(Err("configure", cfg.apiKey.v, ErrTokenRequired))
            /\ UNCHANGED client
       ELSE /\ client' = new_ReplicateClient(cfg.apiKey,
                             OrElse(cfg.timeout, Num("600000")),
                             OrElse(cfg.retries, Num("2")))
            /\ Settle(Ok("configure", cfg.apiKey.v, <<>>))
    /\ UNCHANGED <<listModelsCalls, discoveredModels, listing, timer, background, raceWinner,
                   response, inflight, remoteLookups>>

-----------------------------------------------------------------------------
(* getModelsForCapability *)

\* this.models.filter(model => model.capabilities.includes(capability))
RECURSIVE filter(_, _)
filter(m, capability) ==
    IF m = <<>> THEN <<>>
    ELSE IF arrayIncludes(Head(m).capabilities, capability)
         THEN <<Head(m)>> \o filter(Tail(m), capability)
         ELSE filter(Tail(m), capability)

getModelsForCapability(capability) == filter(models, capability)

-----------------------------------------------------------------------------
(* discoverModelsInBackground / performModelDiscovery *)

\* the race is settled by whichever promise settles first
\* discoverModelsInBackground after `await Promise.race`: it returns when the
\* race fulfils, and its catch logs the rejection when the timer won
backgroundAfter_nocatch(who) == IF who = "timeout" THEN "rejected" ELSE "fulfilled"
backgroundAfter(who) == "fulfilled"

Race(who) ==
    IF raceWinner = "none"
    THEN raceWinner' = who /\ background' = backgroundAfter(who)
    ELSE UNCHANGED <<raceWinner, background>>

\* client.listModels() resolves: the loop runs, the catch swallows its exception
listModelsResolves(resp) ==
    /\ listing = "pending"
    /\ response' = resp
    /\ LET r == performMerge(discoveredModels, resp) IN
         /\ discoveredModels' = r.map
         /\ listing' = IF r.threw THEN "mergeFailed" ELSE "merged"
    /\ Race("discovery")
    /\ UNCHANGED <<listModelsCalls, config, client, timer, inflight, remoteLookups, lastCall>>

\* client.listModels() rejects: the catch of performModelDiscovery swallows it
\* (without that catch and the one of discoverModelsInBackground the rejection
\* would settle the background operation)
listModelsRejects_uncaught ==
    /\ listing = "pending"
    /\ listing' = "rejected"
    /\ IF raceWinner = "none"
       THEN raceWinner' = "discovery" /\ background' = "rejected"
       ELSE UNCHANGED <<raceWinner, background>>
    /\ UNCHANGED <<listModelsCalls, config, client, discoveredModels, timer, response, inflight,
                   remoteLookups, lastCall>>

listModelsRejects ==
    /\ listing = "pending"
    /\ listing' = "rejected"
    /\ Race("discovery")
    /\ UNCHANGED <<listModelsCalls, config, client, discoveredModels, timer, response, inflight,
                   remoteLookups, lastCall>>

\* the 30 second timer fires: reject(new Error('Discovery timeout')), caught and logged
Timeout ==
    /\ timer = "armed"
    /\ timer' = "fired"
    /\ Race("timeout")
    /\ UNCHANGED <<listModelsCalls, config, client, discoveredModels, listing, response, inflight,
                   remoteLookups, lastCall>>

-----------------------------------------------------------------------------
(* getModel, create*Model, getModelMetadata, getReplicateClient *)

\* the wrapper getModel dispatches to
WrapperOf_audioFirst(caps) ==
    IF arrayIncludes(caps, TEXT_TO_IMAGE) THEN "ReplicateTextToImageModel"
    ELSE IF arrayIncludes(caps, TEXT_TO_AUDIO) THEN "ReplicateTextToAudioModel"
    ELSE IF arrayIncludes(caps, TEXT_TO_VIDEO) THEN "ReplicateTextToVideoModel"
    ELSE "ReplicateTextToImageModel"

WrapperOf(caps) ==
    IF arrayIncludes(caps, TEXT_TO_IMAGE) THEN "ReplicateTextToImageModel"
    ELSE IF arrayIncludes(caps, TEXT_TO_VIDEO) THEN "ReplicateTextToVideoModel"
    ELSE IF arrayIncludes(caps, TEXT_TO_AUDIO) THEN "ReplicateTextToAudioModel"
    ELSE "ReplicateTextToImageModel"

\* getModelMetadata: the catalog entry when there is one, else the remote lookup
MetadataSource(id) == IF MapHas(discoveredModels, id) THEN "catalog" ELSE "remote"

Call(op, id, wrapper, stage, source) ==
    [op |-> op, id |-> id, wrapper |-> wrapper, stage |-> stage, source |-> source]

\* create*Model up to `await this.getModelMetadata(modelId)`
createModel(op, wrapper, id) ==
    IF ~client.defined
    THEN /\ Settle(Err(op, id, ErrCreateNotConfigured))
         /\ UNCHANGED <<inflight, remoteLookups>>
    ELSE /\ Cardinality(inflight) < MaxInflight
         /\ inflight' = inflight \cup {Call(op, id, wrapper, "metadata", MetadataSource(id))}
         /\ remoteLookups' = IF MetadataSource(id) = "remote"
                             THEN remoteLookups \cup {id} ELSE remoteLookups
         /\ UNCHANGED lastCall

\* getModel's lookup of the entry: TRUE when the entry is missing
NotFound(id) == ~MapHas(discoveredModels, id)

getModel_fallback(modelId) ==
    /\ IF ~client.defined
       THEN /\ Settle(Err("getModel", modelId, ErrNotConfigured))
            /\ UNCHANGED <<inflight, remoteLookups>>
       ELSE IF NotFound(modelId)
       THEN createModel("getModel", "ReplicateTextToImageModel", modelId)
       ELSE createModel("getModel",
                        WrapperOf(MapGet(discoveredModels, modelId).capabilities), modelId)
    /\ UNCHANGED <<listModelsCalls, config, client, discoveredModels, listing, timer, background,
                   raceWinner, response>>

getModel(modelId) ==
    /\ IF ~client.defined
       THEN /\ Settle(Err("getModel", modelId, ErrNotConfigured))
            /\ UNCHANGED <<inflight, remoteLookups>>
       ELSE IF NotFound(modelId)
       THEN /\ Settle(Err("getModel", modelId, ErrNotFound(modelId)))
            /\ UNCHANGED <<inflight, remoteLookups>>
       ELSE createModel("getModel",
                        WrapperOf(MapGet(discoveredModels, modelId).capabilities), modelId)
    /\ UNCHANGED <<listModelsCalls, config, client, discoveredModels, listing, timer, background,
                   raceWinner, response>>

\* createTextToImageModel called by the host
createTextToImageModel(modelId) ==
    /\ createModel("createTextToImageModel", "ReplicateTextToImageModel", modelId)
    /\ UNCHANGED <<listModelsCalls, config, client, discoveredModels, listing, timer, background,
                   raceWinner, response>>

\* client.getModelMetadata(modelId) rejects
metadataRejects(c) ==
    /\ c \in inflight /\ c.stage = "metadata" /\ c.source = "remote"
    /\ inflight' = inflight \ {c}
    /\ Settle(Err(c.op, c.id, ErrRemoteMetadata))
    /\ UNCHANGED <<listModelsCalls, config, client, discoveredModels, listing, timer, background,
                   raceWinner, response, remoteLookups>>

\* the metadata is there: getReplicateClient() checks this.config?.apiKey, then
\* the SDK client and the wrapper are constructed
metadataResolves(c) ==
    /\ c \in inflight /\ c.stage = "metadata"
    /\ inflight' = inflight \ {c}
    /\ IF ~Truthy(config.apiKey)
       THEN Settle(Err(c.op, c.id, ErrNoApiKey))
       ELSE Settle(Ok(c.op, c.id, <<c.wrapper>>))
    /\ UNCHANGED <<listModelsCalls, config, client, discoveredModels, listing, timer, background,
                   raceWinner, response, remoteLookups>>

-----------------------------------------------------------------------------
(* The provider *)

Next ==
    \/ \E cfg \in ConfigInputs : configure(cfg)
    \/ \E resp \in Responses : listModelsResolves(resp)
    \/ listModelsRejects
    \/ Timeout
    \/ \E id \in ModelIds : getModel(id)
    \/ \E id \in CreateIds : createTextToImageModel(id)
    \/ \E c \in inflight : metadataRejects(c)
    \/ \E c \in inflight : metadataResolves(c)

Spec == Init /\ [][Next]_vars

-----------------------------------------------------------------------------
(* isAvailable and the supports*Model queries *)

\* how `await this.client.testConnection()` settles
TestConnectionOutcomes == {"true", "false", "throws"}

ErrTestConnection == "client.testConnection rejected"

Bool(b) == IF b THEN "true" ELSE "false"

isAvailable_nocatch(probe) ==
    /\ IF ~client.defined
       THEN Settle(Ok("isAvailable", "", <<"false">>))
       ELSE IF probe = "throws"
       THEN Settle(Err("isAvailable", probe, ErrTestConnection))
       ELSE Settle(Ok("isAvailable", probe, <<probe>>))
    /\ UNCHANGED <<listModelsCalls, config, client, discoveredModels, listing, timer, background,
                   raceWinner, response, inflight, remoteLookups>>

isAvailable(probe) ==
    /\ IF ~client.defined
       THEN Settle(Ok("isAvailable", "", <<"false">>))
       ELSE IF probe = "throws"
       THEN Settle(Ok("isAvailable", probe, <<"false">>))
       ELSE Settle(Ok("isAvailable", probe, <<probe>>))
    /\ UNCHANGED <<listModelsCalls, config, client, discoveredModels, listing, timer, background,
                   raceWinner, response, inflight, remoteLookups>>

\* model?.capabilities.includes(capability) || false, model = discoveredModels.get(modelId)
supports_anyCapability(modelId, capability) == MapHas(discoveredModels, modelId)
supports(modelId, capability) ==
    IF ~MapHas(discoveredModels, modelId) THEN FALSE
    ELSE arrayIncludes(MapGet(discoveredModels, modelId).capabilities, capability)

supportsTextToImageModel(modelId) ==
    /\ Settle(Ok("supportsTextToImageModel", modelId, <<Bool(supports(modelId, TEXT_TO_IMAGE))>>))
    /\ UNCHANGED <<listModelsCalls, config, client, discoveredModels, listing, timer, background,
                   raceWinner, response, inflight, remoteLookups>>

supportsTextToVideoModel(modelId) ==
    /\ Settle(Ok("supportsTextToVideoModel", modelId, <<Bool(supports(modelId, TEXT_TO_VIDEO))>>))
    /\ UNCHANGED <<listModelsCalls, config, client, discoveredModels, listing, timer, background,
                   raceWinner, response, inflight, remoteLookups>>

supportsTextToAudioModel(modelId) ==
    /\ Settle(Ok("supportsTextToAudioModel", modelId, <<Bool(supports(modelId, TEXT_TO_AUDIO))>>))
    /\ UNCHANGED <<listModelsCalls, config, client, discoveredModels, listing, timer, background,
                   raceWinner, response, inflight, remoteLookups>>

-----------------------------------------------------------------------------
(* The provider under the host's queries: getModel over every kind of entry, *)
(* isAvailable and supports*Model, while the discovery runs                  *)

\* listing responses: entries with two capabilities, a record without id, a
\* record whose description is a number
MusicVideo == Rec(Str("acme/music-video"), Undef, Undef, NoParams)
SpeechEnhance == Rec(Str("acme/speech-enhance"), Undef, Undef, NoParams)
Orphan == Rec(Undef, Str("Orphan"), Str("audio model"), NoParams)
Malformed == Rec(Str("acme/Upscale-Pro"), Undef, Num("7"), NoParams)
Widget == Rec(Str("acme/widget-123"), Undef, Undef, NoParams)

QueryResponses ==
    {[defined |-> TRUE, results |-> r] :
        r \in { <<MusicVideo, SpeechEnhance>>,
                <<Orphan, MusicVideo>>,
                <<Orphan, Malformed, Widget>>,
                <<MusicVideo, Malformed, SpeechEnhance>> }}

\* ids the host asks about: one bootstrap entry of each capability, the
\* discovered entries, an id that is in no catalog
QueryIds ==
    { "black-forest-labs/flux-schnell", "lumalabs/dream-machine", "meta/musicgen",
      "nightmareai/real-esrgan", "stability-ai/stable-video-diffusion",
      "acme/music-video", "acme/speech-enhance", "nonexistent/model" }

NextQueries ==
    \/ \E cfg \in ConfigInputs : configure(cfg)
    \/ \E resp \in QueryResponses : listModelsResolves(resp)
    \/ listModelsRejects
    \/ Timeout
    \/ \E id \in QueryIds : getModel(id)
    \/ \E c \in inflight : metadataResolves(c)
    \/ \E probe \in TestConnectionOutcomes : isAvailable(probe)
    \/ \E id \in QueryIds : supportsTextToImageModel(id)
    \/ \E id \in QueryIds : supportsTextToVideoModel(id)
    \/ \E id \in QueryIds : supportsTextToAudioModel(id)

SpecQueries == Init /\ [][NextQueries]_vars

-----------------------------------------------------------------------------
(* The classifier on its own: a record in flight, classified as the loop of  *)
(* performModelDiscovery classifies it                                       *)

ClassifyIds ==
    { "someone/music-video-generator", "acme/widget-123", "acme/Upscale-Pro",
      "acme/TXT2IMG-turbo", "lab/stable-diffusion-3", "lab/image-to-video-xl",
      "lab/Text-To-Video", "voice/fast-tts" }

ClassifyDescriptions ==
    { Undef, Str("Generate VIDEOS with TTS and FLUX"), Str("Text to Image model"),
      Str("Video generation and Speech"), Str("Restore old photos"),
      Str("image to video"), Str("A faster model") }

ClassifyInputs ==
    {Rec(Str(i), Undef, d, NoParams) : i \in ClassifyIds, d \in ClassifyDescriptions}

InitClassify ==
    \E modelData \in ClassifyInputs :
        /\ discoveredModels = initializeKnownReplicateModels
        /\ client = new_ReplicateClient(Str("r8_env"), Num("600000"), Num("2"))
        /\ config = Cfg(Str("r8_env"), Undef, Undef)
        /\ timer = "armed"
        /\ listing = "pending"
        /\ listModelsCalls = 1
        /\ background = "pending"
        /\ raceWinner = "none"
        /\ response = [defined |-> TRUE, results |-> <<modelData>>]
        /\ inflight = {}
        /\ remoteLookups = {}
        /\ lastCall = Idle

classify ==
    /\ lastCall = Idle
    /\ ~inferThrows(response.results[1])
    /\ lastCall' = Ok("inferCapabilitiesFromModel", response.results[1].id.v,
                      inferCapabilitiesFromModel(response.results[1]))
    /\ UNCHANGED <<listModelsCalls, config, client, discoveredModels, listing, timer, background,
                   raceWinner, response, inflight, remoteLookups>>

NextClassify == classify

SpecClassify == InitClassify /\ [][NextClassify]_vars

-----------------------------------------------------------------------------
(* Properties *)

Range(seq) == {seq[i] : i \in 1..Len(seq)}
BootstrapIds == {knownModels[i].id : i \in 1..Len(knownModels)}
Results == ResultsOf(response)
Classified == {TEXT_TO_IMAGE, TEXT_TO_VIDEO, TEXT_TO_AUDIO, IMAGE_TO_IMAGE, IMAGE_TO_VIDEO}

\* a call of the host settles in this step
Settles(op) == lastCall' # lastCall /\ lastCall'.op = op

\* the listing response is handled in this step
MergeStep == listing = "pending" /\ listing' \in {"merged", "mergeFailed"}

\* C1: once the timer has won the race, the catalog never changes again,
\* whatever the late listing response contains.
C1_LateResponseDiscarded ==
    [][raceWinner = "timeout" => discoveredModels' = discoveredModels]_vars

\* C2: configure() with no apiKey raises an error and leaves the stored
\* configuration and the client as they were.
C2_FailedConfigureKeepsState ==
    [][(Settles("configure") /\ lastCall'.arg = "")
         => /\ lastCall'.outcome = "error"
            /\ config' = config
            /\ client' = client]_vars

\* C3: a discovered record whose id is already a catalog key (a bootstrap id,
\* or an id inserted by an earlier record of the same pass) is skipped: the
\* entry stored under that id is the one that was stored first.
C3_MergeSkipsExisting ==
    [][MergeStep =>
         /\ \A id \in MapKeys(discoveredModels) :
               /\ MapHas(discoveredModels', id)
               /\ MapGet(discoveredModels', id) = MapGet(discoveredModels, id)
         /\ LET rs == ResultsOf(response') IN
            \A j \in 1..Len(rs) : \A k \in (j + 1)..Len(rs) :
               ( /\ Truthy(rs[j].id) /\ rs[k].id = rs[j].id
                 /\ \A h \in 1..(j - 1) : rs[h].id # rs[j].id
                 /\ ~MapHas(discoveredModels, rs[j].id.v)
                 /\ MapHas(discoveredModels', rs[j].id.v) )
               => MapGet(discoveredModels', rs[j].id.v) = EntryOf(rs[j])]_vars

\* C3 witness: a response carrying a bootstrap id under another name, followed
\* by a new record, has been merged: the new record is in, the name is kept.
C3_Witness ==
    /\ listing = "merged"
    /\ Len(Results) = 2
    /\ Results[1].id = Str("black-forest-labs/flux-schnell")
    /\ Results[1].name = Str("Flux Fast")
    /\ MapGet(discoveredModels, "black-forest-labs/flux-schnell").name = Str("FLUX.1 Schnell")
    /\ MapHas(discoveredModels, "acme/widget-123")

\* C4: the set of catalog keys only grows.
C4_KeysOnlyGrow ==
    [][MapKeys(discoveredModels) \subseteq MapKeys(discoveredModels')]_vars

\* C4 witness: the catalog has grown beyond the bootstrap set and calls were made.
C4_Witness ==
    /\ Len(discoveredModels) > Len(knownModels)
    /\ lastCall.op = "configure"

\* C5: until the enrichment pass writes, models is exactly the bootstrap list:
\* one entry per hard-coded definition, distinct ids, non-empty capabilities.
C5_BootstrapExactly ==
    listing \in {"notCalled", "pending", "rejected"} =>
        /\ Len(models) = Len(knownModels)
        /\ \A i \in 1..Len(models) :
              /\ models[i].id = knownModels[i].id
              /\ models[i].name = Str(knownModels[i].name)
              /\ models[i].description = knownModels[i].description
              /\ models[i].capabilities = knownModels[i].capabilities
              /\ Len(models[i].capabilities) > 0
        /\ \A i, j \in 1..Len(models) : i # j => models[i].id # models[j].id
        /\ Cardinality(MapKeys(models)) = Len(knownModels)

\* C5 witness: the provider is in use and no enrichment write has happened.
C5_Witness ==
    /\ listing = "pending"
    /\ lastCall.op = "getModel"
    /\ Len(models) = Len(knownModels)

\* C6: while the listing call has not settled the catalog has the bootstrap
\* size, and once the timer has fired the background operation is finished,
\* fulfilled and never rejected.
C6_TimeoutAbandons ==
    /\ background # "rejected"
    /\ listing = "pending" =>
          /\ Len(models) = Len(knownModels)
          /\ timer = "fired" => (background = "fulfilled" /\ raceWinner = "timeout")

\* C6 witness: the timer fired while the listing call was still pending.
C6_Witness ==
    /\ listing = "pending"
    /\ timer = "fired"
    /\ background = "fulfilled"

\* the trigger substrings inferCapabilitiesFromModel tests against the id
IdTriggers(c) ==
    CASE c = TEXT_TO_IMAGE -> {"text-to-image", "txt2img", "flux", "sdxl", "stable-diffusion"}
      [] c = TEXT_TO_VIDEO -> {"text-to-video", "video"}
      [] c = TEXT_TO_AUDIO -> {"music", "audio", "speech", "tts"}
      [] c = IMAGE_TO_IMAGE -> {"upscale", "enhance", "restore"}
      [] c = IMAGE_TO_VIDEO -> {"image-to-video"}

\* the trigger substrings inferCapabilitiesFromModel tests against the description
DescriptionTriggers(c) ==
    CASE c = TEXT_TO_IMAGE -> {"text to image", "generate image"}
      [] c = TEXT_TO_VIDEO -> {"text to video", "video generation"}
      [] c = TEXT_TO_AUDIO -> {"music", "audio", "speech"}
      [] c = IMAGE_TO_IMAGE -> {"upscale", "enhance", "restore"}
      [] c = IMAGE_TO_VIDEO -> {"image to video"}

\* the table of section 4.2: every trigger, tested against both fields
TableTriggers(c) ==
    CASE c = TEXT_TO_IMAGE -> {"text-to-image", "txt2img", "flux", "sdxl", "stable-diffusion",
                               "text to image", "generate image"}
      [] c = TEXT_TO_VIDEO -> {"text-to-video", "video", "text to video", "video generation"}
      [] c = TEXT_TO_AUDIO -> {"music", "audio", "speech", "tts"}
      [] c = IMAGE_TO_IMAGE -> {"upscale", "enhance", "restore"}
      [] c = IMAGE_TO_VIDEO -> {"image-to-video", "image to video"}

\* trigger t occurs, case-insensitively, in field x
Occurs(t, x) == includes(LowerOf(x), t)

OrDefault(hit) == IF hit = {} THEN {TEXT_TO_IMAGE} ELSE hit

PerFieldMatches(modelData) ==
    {c \in Classified :
        \/ \E t \in IdTriggers(c) : Occurs(t, modelData.id)
        \/ \E t \in DescriptionTriggers(c) : Occurs(t, modelData.description)}

TableMatches(modelData) ==
    {c \in Classified :
        \E t \in TableTriggers(c) : Occurs(t, modelData.id) \/ Occurs(t, modelData.description)}

\* C7 as stated: the classifier returns the capabilities that have a trigger
\* of the section 4.2 table in the id or in the description, and
\* {text-to-image} when there is none.
C7_TableBothFields ==
    lastCall.op = "inferCapabilitiesFromModel" =>
        Range(lastCall.value) = OrDefault(TableMatches(response.results[1]))

\* C7 amended: the classifier returns the capabilities that have one of their
\* id triggers in the id or one of their description triggers in the
\* description, and {text-to-image} when there is none; the id
\* someone/music-video-generator yields {text-to-audio, text-to-video}.
C7_PerFieldTriggers ==
    lastCall.op = "inferCapabilitiesFromModel" =>
        /\ Range(lastCall.value) = OrDefault(PerFieldMatches(response.results[1]))
        /\ Len(lastCall.value) = Cardinality(Range(lastCall.value))
        /\ ( /\ lastCall.arg = "someone/music-video-generator"
             /\ response.results[1].description = Undef )
           => Range(lastCall.value) = {TEXT_TO_AUDIO, TEXT_TO_VIDEO}

\* C7 witness: "flux", "video" and "tts" occur in the description only, and
\* the record is classified by the fallback.
C7_Witness ==
    /\ lastCall.op = "inferCapabilitiesFromModel"
    /\ lastCall.arg = "acme/widget-123"
    /\ response.results[1].description = Str("Generate VIDEOS with TTS and FLUX")
    /\ lastCall.value = <<TEXT_TO_IMAGE>>

\* C8: every catalog entry has a capability, and a discovered record that
\* matches no classifier rule is stored with exactly <<text-to-image>>.
C8_CapabilitiesNonEmpty ==
    /\ \A i \in 1..Len(discoveredModels) : Len(discoveredModels[i].capabilities) > 0
    /\ listing \in {"merged", "mergeFailed"} =>
          \A j \in 1..Len(Results) :
             ( /\ Results[j].id.t = "string" /\ Truthy(Results[j].id)
               /\ \A h \in 1..(j - 1) : Results[h].id # Results[j].id
               /\ Results[j].id.v \notin BootstrapIds
               /\ MapHas(discoveredModels, Results[j].id.v)
               /\ PerFieldMatches(Results[j]) = {} )
             => MapGet(discoveredModels, Results[j].id.v).capabilities = <<TEXT_TO_IMAGE>>

\* C8 witness: the record acme/widget-123, which matches no rule, is stored.
C8_Witness ==
    /\ listing = "merged"
    /\ Len(Results) >= 1
    /\ Results[1] = Rec(Str("acme/widget-123"), Undef, Undef, NoParams)
    /\ MapGet(discoveredModels, "acme/widget-123").capabilities = <<TEXT_TO_IMAGE>>

BootstrapPresent(m) ==
    \A i \in 1..Len(knownModels) :
        /\ MapHas(m, knownModels[i].id)
        /\ arrayIncludes(MapGet(m, knownModels[i].id).capabilities,
                         knownModels[i].capabilities[1])

\* C10 as stated: getModel of a bootstrap id succeeds in every provider state,
\* a provider constructed without a credential included.
C10_BootstrapAlwaysResolves ==
    [][(Settles("getModel") /\ lastCall'.arg \in BootstrapIds)
         => /\ lastCall'.outcome = "ok"
            /\ BootstrapPresent(discoveredModels')]_vars

\* C10 amended: every bootstrap id stays a catalog key whose entry carries its
\* bootstrap tag, so getModel of it never fails with not-found; it fails with
\* 'Provider not configured ...' when the provider holds no client, with
\* 'Provider not configured with API key' when the stored configuration holds
\* no credential as the SDK client is built, and succeeds otherwise.
C10_BootstrapResolves ==
    [][ /\ BootstrapPresent(discoveredModels)
        /\ BootstrapPresent(discoveredModels')
        /\ (Settles("getModel") /\ lastCall'.arg \in BootstrapIds)
             => /\ lastCall'.outcome = IF client.defined /\ Truthy(config.apiKey)
                                       THEN "ok" ELSE "error"
                /\ lastCall'.error = IF ~client.defined THEN ErrNotConfigured
                                     ELSE IF ~Truthy(config.apiKey) THEN ErrNoApiKey
                                     ELSE "" ]_vars

\* C10 witness: getModel of a bootstrap id succeeded.
C10_Witness ==
    /\ lastCall.op = "getModel"
    /\ lastCall.arg = "black-forest-labs/flux-schnell"
    /\ lastCall.outcome = "ok"

\* C12: over any sequence of operations the remote listing call is made at
\* most once, and only by the constructor: no later step makes one.
C12_DiscoveryAtMostOnce ==
    [][listModelsCalls' = listModelsCalls /\ listModelsCalls' <= 1]_vars

\* C12 witness: configure() succeeded on a provider whose discovery had
\* already finished, and the listing call was not made again.
C12_Witness ==
    /\ listModelsCalls = 1
    /\ listing = "merged"
    /\ lastCall.op = "configure"
    /\ lastCall.outcome = "ok"

\* the priority order of the dispatch and the wrapper of each capability in it
Priority == <<TEXT_TO_IMAGE, TEXT_TO_VIDEO, TEXT_TO_AUDIO>>
WrapperFor ==
    <<"ReplicateTextToImageModel", "ReplicateTextToVideoModel", "ReplicateTextToAudioModel">>

\* positions of Priority whose capability the entry of id has
Hits(id) ==
    {k \in 1..Len(Priority) :
        \E i \in 1..Len(discoveredModels) :
            /\ discoveredModels[i].id = id
            /\ Priority[k] \in Range(discoveredModels[i].capabilities)}

\* C11: a getModel call that found its entry is handed to the wrapper of the
\* first capability of [text-to-image, text-to-video, text-to-audio] the entry
\* has, and to the image wrapper when the entry has none of the three.  (The
\* catalog never changes between the lookup and the settlement of a call on an
\* entry, by C3 and C4, so the entry is read in the state of the settlement.)
C11_DispatchByPriority ==
    [][(Settles("getModel") /\ lastCall'.outcome = "ok") =>
          LET hits == Hits(lastCall'.arg) IN
          lastCall'.value =
              IF hits = {} THEN <<"ReplicateTextToImageModel">>
              ELSE <<WrapperFor[CHOOSE k \in hits : \A j \in hits : k <= j]>>]_vars

\* C11 witness: a discovered entry with text-to-video and text-to-audio went
\* to the video wrapper
C11_Witness ==
    /\ lastCall = Ok("getModel", "acme/music-video", <<"ReplicateTextToVideoModel">>)
    /\ MapHas(discoveredModels, "acme/music-video")
    /\ MapGet(discoveredModels, "acme/music-video").capabilities
           = <<TEXT_TO_VIDEO, TEXT_TO_AUDIO>>

\* C13: when the listing call rejects, the rejection is swallowed: the step
\* settles no call of the host with an error (it leaves every call's outcome
\* as it was), the background operation ends fulfilled, never rejected, and
\* the catalog is the bootstrap catalog from then on.
C13_ListingFailureSwallowed ==
    [][listing' = "rejected" =>
          /\ background' = "fulfilled"
          /\ discoveredModels' = initializeKnownReplicateModels
          /\ (listing = "pending" => lastCall' = lastCall)]_vars

\* C13 witness: the listing call rejected before the timer fired, and the host
\* got a model from the bootstrap catalog afterwards
C13_Witness ==
    /\ listing = "rejected"
    /\ raceWinner = "discovery"
    /\ background = "fulfilled"
    /\ lastCall = Ok("getModel", "black-forest-labs/flux-schnell", <<"ReplicateTextToImageModel">>)

\* C14: isAvailable() never throws; it answers false when the provider holds
\* no client, false when the connectivity check answers false or throws, and
\* true exactly when the provider holds a client and the check answers true.
C14_IsAvailableNeverThrows ==
    [][Settles("isAvailable") =>
          /\ lastCall'.outcome = "ok"
          /\ (~client.defined => lastCall'.arg = "" /\ lastCall'.value = <<"false">>)
          /\ (client.defined =>
                 /\ lastCall'.arg \in TestConnectionOutcomes
                 /\ lastCall'.value =
                        <<IF lastCall'.arg = "true" THEN "true" ELSE "false">>)]_vars

\* C14 witness: the provider holds a client, the connectivity check threw and
\* isAvailable() answered false
C14_Witness ==
    /\ client.defined
    /\ lastCall = Ok("isAvailable", "throws", <<"false">>)

\* the capability each supports*Model query asks for
Queried(op) ==
    CASE op = "supportsTextToImageModel" -> TEXT_TO_IMAGE
      [] op = "supportsTextToVideoModel" -> TEXT_TO_VIDEO
      [] op = "supportsTextToAudioModel" -> TEXT_TO_AUDIO

SupportsOps ==
    {"supportsTextToImageModel", "supportsTextToVideoModel", "supportsTextToAudioModel"}

\* C15: a supports*Model query never raises; it answers false for an id that
\* is not a key of the catalog, and for a key it answers true exactly when the
\* entry's capabilities contain the capability the query asks for.
C15_SupportsQueries ==
    [][\A op \in SupportsOps :
          Settles(op) =>
              /\ lastCall'.outcome = "ok"
              /\ lastCall'.value =
                     <<IF \E i \in 1..Len(discoveredModels) :
                              /\ discoveredModels[i].id = lastCall'.arg
                              /\ Queried(op) \in Range(discoveredModels[i].capabilities)
                       THEN "true" ELSE "false">>
              /\ (lastCall'.arg \notin MapKeys(discoveredModels)
                      => lastCall'.value = <<"false">>)]_vars

\* C15 witness: the discovered entry [text-to-audio, image-to-image] was asked
\* about and the audio query answered true
C15_Witness ==
    /\ MapHas(discoveredModels, "acme/speech-enhance")
    /\ lastCall = Ok("supportsTextToAudioModel", "acme/speech-enhance", <<"true">>)

\* the number of known models the README of the provider promises ("15+")
ReadmeKnownModels == 15

\* C16: right after construction, before any discovery has completed, the
\* provider lists at least 15 models.
C16_FifteenKnownModels ==
    listing \in {"notCalled", "pending"} => Len(models) >= ReadmeKnownModels

\* ids of the records of a listing response that have one
RecordIds(results) == {results[j].id.v : j \in {k \in 1..Len(results) : Truthy(results[k].id)}}

\* C17: whatever state a catalog query observes, the catalog is either the
\* catalog before the enrichment or holds every record of the listing response
\* that has an id; no state, one after a pass that stopped on an error
\* included, holds only part of the response's new records.
C17_NoPartialMerge ==
    \/ discoveredModels = initializeKnownReplicateModels
    \/ RecordIds(Results) \subseteq MapKeys(discoveredModels)

\* C18: when a listing response with a record without id is handled, that
\* record is skipped without inserting an entry and every record with an id
\* is a key of the catalog afterwards.
C18_IdlessRecordSkipped ==
    [][(MergeStep /\ \E j \in 1..Len(ResultsOf(response')) :
                        ~Truthy(ResultsOf(response')[j].id)) =>
          MapKeys(discoveredModels')
              = MapKeys(discoveredModels) \cup RecordIds(ResultsOf(response'))]_vars

\* C19: the provider holds a client only if its stored configuration holds a
\* credential, and no getModel call that passed the 'provider configured'
\* check fails with 'Provider not configured with API key'.
C19_ClientImpliesCredential ==
    /\ client.defined => Truthy(config.apiKey)
    /\ ~(lastCall.op = "getModel" /\ lastCall.error = ErrNoApiKey)

====
